---- MODULE Spec2Model ----
(***************************************************************************)
(* Service lifecycle commands of src-tauri/src/lib.rs: the Tauri commands  *)
(* that check, start and stop the container runtime (Docker) and the local *)
(* backend stack (Supabase).  Every command is an async handler: a         *)
(* sequence of external process invocations, each awaited.  A step of the  *)
(* model is one such invocation together with the handler code that runs   *)
(* up to the next await (or to the return).  Several invocations can be in *)
(* flight at once; they interleave at the awaits.                          *)
(*                                                                         *)
(* Text is a sequence of tokens: format!("running:{}", v) is               *)
(* <<"running:">> \o v, and a prefix or substring test is a test on        *)
(* tokens.                                                                 *)
(***************************************************************************)
EXTENDS Naturals, Sequences, FiniteSets

VARIABLES
    target_os,          \* the cfg(target_os) the binary was built for
    docker,             \* container runtime: absent (no docker CLI) | down | starting | up
    supa,               \* backend stack: down | starting | up
    supabaseCli,        \* the `supabase` executable can be spawned
    curlCli,            \* the `curl` executable can be spawned
    table,              \* what GET /rest/v1/tasks answers while the stack is up ("none" when it is not)
    tasks,              \* the command invocations in flight, one per slot
    lastStopClean,      \* history: a `supabase stop` exited 0 and nothing started the stack since
    dockerSeenRunning   \* history: some check_docker_status has returned running:<version>

vars == <<target_os, docker, supa, supabaseCli, curlCli, table, tasks,
          lastStopClean, dockerSeenRunning>>

world == <<target_os, supabaseCli, curlCli>>

\* Number of invocation slots: how many commands the GUI has in flight at once.
NumTasks == 2

Tasks == 1..NumTasks

Platforms == {"macos", "windows", "linux"}

\* HTTP status codes the tasks endpoint can answer with (as curl's %{http_code} prints them).
HttpCodes == {"200", "406", "401", "403", "404", "500"}

-----------------------------------------------------------------------------
(* Text *)

IsSpace(tok) == tok \in {" ", "\n"}

RECURSIVE TrimStart(_)
TrimStart(s) ==
    IF s = <<>> THEN <<>>
    ELSE IF IsSpace(Head(s)) THEN TrimStart(Tail(s)) ELSE s

RECURSIVE TrimEnd(_)
TrimEnd(s) ==
    IF s = <<>> THEN <<>>
    ELSE IF IsSpace(s[Len(s)]) THEN TrimEnd(SubSeq(s, 1, Len(s) - 1)) ELSE s

\* str::trim
Trim(s) == TrimEnd(TrimStart(s))

Contains(text, tok) == \E i \in 1..Len(text) : text[i] = tok

StartsWith(text, tok) == Len(text) >= 1 /\ text[1] = tok

\* Result<String, String>
Ok(text) == [ok |-> TRUE, text |-> text]

Err(text) == [ok |-> FALSE, text |-> text]

-----------------------------------------------------------------------------
(* Outcome of `.output().await`: Err(e) when the process could not be run, *)
(* else Ok(Output {status, stdout, stderr}).                               *)

SpawnErr(e) ==
    [spawned |-> FALSE, success |-> FALSE, stdout |-> <<>>, stderr |-> <<>>, error |-> e]

Exit(success, stdout, stderr) ==
    [spawned |-> TRUE, success |-> success, stdout |-> stdout, stderr |-> stderr, error |-> ""]

NotFound == "No such file or directory (os error 2)"

\* One possible run of a command: its outcome and the services after it.
Same(o) == [out |-> o, docker |-> docker, supa |-> supa]

To(o, d, s) == [out |-> o, docker |-> d, supa |-> s]

\* docker info --format {{.ServerVersion}}
DockerInfo ==
    IF docker = "absent" THEN {Same(SpawnErr(NotFound))}
    ELSE IF docker = "up" THEN {Same(Exit(TRUE, <<"27.3.1", "\n">>, <<>>))}
    ELSE {Same(Exit(FALSE, <<"\n">>, <<"Cannot connect to the Docker daemon">>))}

\* docker --version
DockerVersion ==
    IF docker = "absent" THEN {Same(SpawnErr(NotFound))}
    ELSE {Same(Exit(TRUE, <<"Docker version 27.3.1", "\n">>, <<>>)),
          Same(Exit(FALSE, <<>>, <<"docker: broken installation">>))}

\* docker desktop start (Docker Desktop CLI, v4.37+)
DockerDesktopStart ==
    IF docker = "absent" THEN {Same(SpawnErr(NotFound))}
    ELSE {To(Exit(TRUE, <<>>, <<>>), IF docker = "down" THEN "starting" ELSE docker, supa),
          Same(Exit(FALSE, <<>>, <<"docker: 'desktop' is not a docker command">>))}

\* The platform launcher of the fallback branch.
FallbackCommand(os) ==
    CASE os = "macos" -> "open -a Docker --background"
      [] os = "windows" -> "cmd /c start Docker Desktop.exe"
      [] os = "linux" -> "systemctl --user start docker-desktop"

LauncherStderr == "launcher: Docker Desktop could not be started"

\* It can start the application also where the docker CLI is not on the PATH.
DockerLauncher ==
    {Same(SpawnErr(NotFound)),
     Same(Exit(FALSE, <<>>, <<LauncherStderr>>)),
     To(Exit(TRUE, <<>>, <<>>), IF docker = "down" THEN "starting" ELSE docker, supa)}

\* curl -s -o /dev/null -w %{http_code} http://127.0.0.1:54321/rest/v1/ --max-time 2
CurlHealth ==
    IF ~curlCli THEN {Same(SpawnErr(NotFound))}
    ELSE IF supa = "up" THEN {Same(Exit(TRUE, <<"200">>, <<>>))}
    ELSE IF supa = "starting" THEN {Same(Exit(TRUE, <<"503">>, <<>>))}
    ELSE {Same(Exit(FALSE, <<"000">>, <<>>))}

\* curl ... http://127.0.0.1:54321/rest/v1/tasks?limit=1 -H apikey:... --max-time 5
CurlTasks ==
    IF ~curlCli THEN {Same(SpawnErr(NotFound))}
    ELSE IF supa = "up" THEN {Same(Exit(TRUE, <<table>>, <<>>))}
    ELSE IF supa = "starting" THEN {Same(Exit(TRUE, <<"503">>, <<>>))}
    ELSE {Same(Exit(FALSE, <<"000">>, <<>>))}

StatusJson == "{\"API_URL\":\"http://127.0.0.1:54321\"}"

\* supabase status -o json: needs the stack up and the working directory in the project
SupabaseStatus ==
    IF ~supabaseCli THEN {Same(SpawnErr(NotFound))}
    ELSE {Same(Exit(FALSE, <<>>, <<"failed to inspect container health">>))}
         \cup (IF supa = "up" THEN {Same(Exit(TRUE, <<StatusJson, "\n">>, <<>>))} ELSE {})

\* supabase start: needs the container runtime
SupabaseStart ==
    IF ~supabaseCli THEN {Same(SpawnErr(NotFound))}
    ELSE {Same(Exit(FALSE, <<>>, <<"failed to start: cannot connect to Docker">>))}
         \cup (IF docker = "up"
               THEN {To(Exit(TRUE, <<"Started supabase local development setup.", "\n">>, <<>>),
                        docker, IF supa = "down" THEN "starting" ELSE supa)}
               ELSE {})

\* supabase stop
SupabaseStop ==
    IF ~supabaseCli THEN {Same(SpawnErr(NotFound))}
    ELSE {Same(Exit(FALSE, <<>>, <<"failed to stop: cannot find project">>))}
         \cup (IF docker = "up"
               THEN {To(Exit(TRUE, <<"Stopped supabase local development setup.", "\n">>, <<>>),
                        docker, "down")}
               ELSE {})

\* supabase --version
SupabaseVersion ==
    IF ~supabaseCli THEN {Same(SpawnErr(NotFound))}
    ELSE {Same(Exit(TRUE, <<"2.20.5", "\n">>, <<>>)),
          Same(Exit(FALSE, <<>>, <<"supabase: broken installation">>))}

-----------------------------------------------------------------------------
(* Handler logic: what each command does with the outcome of an invocation *)

Call(cmd, o) == [cmd |-> cmd, out |-> o]

\* check_docker_status: `?` on the outcome, then the exit status
check_docker_status_result(o) ==
    IF ~o.spawned THEN Err(<<"Failed to run docker: ", o.error>>)
    ELSE IF o.success THEN Ok(<<"running:">> \o Trim(o.stdout))
    ELSE Ok(<<"not_running">>)

primary_started_any_exit(o) == o.spawned

\* start_docker_desktop: `Ok(o) if o.status.success()`
primary_started(o) == o.spawned /\ o.success

\* start_docker_desktop: the fallback branch (the same in the three cfg blocks)
start_docker_fallback_result(o) ==
    IF ~o.spawned THEN Err(<<"Failed to start Docker: ", o.error>>)
    ELSE IF o.success THEN Ok(<<"started">>)
    ELSE Err(<<"Failed to start Docker Desktop">>)

health_is_any_answer(o) == o.spawned

\* check_supabase_status / start_supabase: `if let Ok(output)` and status_code == "200"
health_is_200(o) == o.spawned /\ Trim(o.stdout) = <<"200">>

check_supabase_config_propagates(c) ==
    IF ~c.spawned THEN Err(<<"Failed to run supabase: ", c.error>>)
    ELSE IF c.success THEN Ok(<<"running:">> \o c.stdout)
    ELSE Ok(<<"not_running">>)

\* check_supabase_status: the enrichment after a 200
check_supabase_config_result(c) ==
    IF c.spawned /\ c.success THEN Ok(<<"running:">> \o c.stdout)
    ELSE Ok(<<"running:", "{}">>)

check_supabase_cli_lenient(o) ==
    IF ~o.spawned THEN Err(<<"Failed to run supabase: ", o.error>>)
    ELSE IF o.success THEN Ok(<<"running:">> \o o.stdout)
    ELSE Ok(<<"running:", "{}">>)

\* check_supabase_status: the CLI fallback
check_supabase_cli_result(o) ==
    IF ~o.spawned THEN Err(<<"Failed to run supabase: ", o.error>>)
    ELSE IF o.success THEN Ok(<<"running:">> \o o.stdout)
    ELSE Ok(<<"not_running">>)

status_says_running_any_exit(s) == s.spawned

\* start_supabase: `if let Ok(s) = status { if s.status.success() ...`
status_says_running(s) == s.spawned /\ s.success

start_supabase_any_exit(o) ==
    IF ~o.spawned THEN Err(<<"Failed to start supabase: ", o.error>>)
    ELSE Ok(<<"started">>)

\* start_supabase: the launch
start_supabase_result(o) ==
    IF ~o.spawned THEN Err(<<"Failed to start supabase: ", o.error>>)
    ELSE IF o.success THEN Ok(<<"started">>)
    ELSE Err(<<"Failed to start Supabase: ">> \o o.stderr)

\* stop_supabase
stop_supabase_any_exit(o) ==
    IF ~o.spawned THEN Err(<<"Failed to stop supabase: ", o.error>>)
    ELSE Ok(<<"stopped">>)

stop_supabase_result(o) ==
    IF ~o.spawned THEN Err(<<"Failed to stop supabase: ", o.error>>)
    ELSE IF o.success THEN Ok(<<"stopped">>)
    ELSE Err(<<"Failed to stop Supabase: ">> \o o.stderr)

\* get_supabase_config
get_supabase_config_result(o) ==
    IF ~o.spawned THEN Err(<<"Failed to get supabase config: ", o.error>>)
    ELSE IF o.success THEN Ok(o.stdout)
    ELSE Err(<<"Supabase is not running">>)

ReadyCodesWithout401 == {<<"200">>, <<"406">>}

\* run_supabase_migrations: the statuses that count as "schema ready"
ReadyCodes == {<<"200">>, <<"406">>, <<"401">>}

RemediationCommand == "supabase db push --local"

run_supabase_migrations_result(o) ==
    IF o.spawned
    THEN IF Trim(o.stdout) \in ReadyCodes
         THEN Ok(<<"migrations_complete">>)
         ELSE Err(<<"Database schema not ready (status ">> \o Trim(o.stdout)
                  \o <<"). Please run '", RemediationCommand,
                       "' from the FlowState project directory to set up the database.">>)
    ELSE Err(<<"Failed to verify database: ", o.error>>)

installed_propagates(o) ==
    IF ~o.spawned THEN Err(<<"Failed to run: ", o.error>>)
    ELSE IF o.success THEN Ok(<<"installed:">> \o Trim(o.stdout))
    ELSE Ok(<<"not_installed">>)

\* check_docker_installed / check_supabase_installed
installed_result(o) ==
    IF o.spawned /\ o.success THEN Ok(<<"installed:">> \o Trim(o.stdout))
    ELSE Ok(<<"not_installed">>)

-----------------------------------------------------------------------------
(* Invocations *)

NoResult == [ok |-> FALSE, text |-> <<>>]

IdleTask ==
    [op |-> "none", pc |-> "idle", cmds |-> <<>>, res |-> NoResult, pre |-> "none", peers |-> {}]

Invocable(t) == tasks[t].pc \in {"idle", "done"}

InFlight(u) == tasks[u].pc \notin {"idle", "done"}

\* The invocations of `op` that are between two of their awaits right now.
Concurrent(t, op) == {u \in Tasks \ {t} : tasks[u].op = op /\ InFlight(u)}

\* A new invocation in slot t, after its first command `call`.
Begun(t, op, pre, call, pc, res) ==
    [op |-> op, pc |-> pc, cmds |-> <<call>>, res |-> res, pre |-> pre,
     peers |-> Concurrent(t, op)]

\* The invocation in slot t after one more command.
Stepped(t, call, pc, res) ==
    [tasks[t] EXCEPT !.pc = pc, !.cmds = Append(@, call), !.res = res]

\* The stack was launched by this run of a command.
Launched(r) == supa = "down" /\ r.supa # "down"

\* Slot t becomes `task` by a run r of a command; the other slots keep their
\* invocation (the history fields follow what happened).
Advance(t, task, r, begin, stoppedOk, seenRunning) ==
    /\ docker' = r.docker
    /\ supa' = r.supa
    /\ table' = IF r.supa = "up" THEN table ELSE "none"
    /\ tasks' = [u \in Tasks |->
                   IF u = t THEN task
                   ELSE [tasks[u] EXCEPT
                           !.peers = IF begin THEN @ \ {t} ELSE @,
                           !.pre = IF Launched(r) /\ @ = "after_stop" THEN "none" ELSE @]]
    /\ lastStopClean' = (stoppedOk \/ (lastStopClean /\ ~Launched(r)))
    /\ dockerSeenRunning' = (dockerSeenRunning \/ seenRunning)
    /\ UNCHANGED world

\* What the status check of a service answers for sure, as the invocation begins:
\* `docker info` exits 0 exactly when the daemon is up; the health probe reads 200
\* exactly when the stack is up and curl can be run.
DockerState == IF docker = "up" THEN "running" ELSE "stopped"

SupabaseState ==
    IF supa # "up" THEN "stopped" ELSE IF curlCli THEN "running" ELSE "unknown"

check_docker_status(t) ==
    /\ Invocable(t)
    /\ \E r \in DockerInfo :
         LET res == check_docker_status_result(r.out) IN
         Advance(t, Begun(t, "check_docker_status", "none", Call("docker info", r.out), "done", res),
                 r, TRUE, FALSE, res.ok /\ StartsWith(res.text, "running:"))

start_docker_desktop(t) ==
    /\ Invocable(t)
    /\ \E r \in DockerDesktopStart :
         Advance(t, Begun(t, "start_docker_desktop", DockerState,
                          Call("docker desktop start", r.out),
                          IF primary_started(r.out) THEN "done" ELSE "fallback",
                          IF primary_started(r.out) THEN Ok(<<"started">>) ELSE NoResult),
                 r, TRUE, FALSE, FALSE)

start_docker_desktop_fallback(t) ==
    /\ tasks[t].op = "start_docker_desktop"
    /\ tasks[t].pc = "fallback"
    /\ \E r \in DockerLauncher :
         Advance(t, Stepped(t, Call(FallbackCommand(target_os), r.out), "done",
                            start_docker_fallback_result(r.out)),
                 r, FALSE, FALSE, FALSE)

check_supabase_status(t) ==
    /\ Invocable(t)
    /\ \E r \in CurlHealth :
         Advance(t, Begun(t, "check_supabase_status",
                          IF lastStopClean THEN "after_stop" ELSE "none",
                          Call("curl health", r.out),
                          IF health_is_200(r.out) THEN "config" ELSE "cli", NoResult),
                 r, TRUE, FALSE, FALSE)

check_supabase_status_config(t) ==
    /\ tasks[t].op = "check_supabase_status"
    /\ tasks[t].pc = "config"
    /\ \E r \in SupabaseStatus :
         Advance(t, Stepped(t, Call("supabase status", r.out), "done",
                            check_supabase_config_result(r.out)),
                 r, FALSE, FALSE, FALSE)

check_supabase_status_cli(t) ==
    /\ tasks[t].op = "check_supabase_status"
    /\ tasks[t].pc = "cli"
    /\ \E r \in SupabaseStatus :
         Advance(t, Stepped(t, Call("supabase status", r.out), "done",
                            check_supabase_cli_result(r.out)),
                 r, FALSE, FALSE, FALSE)

start_supabase(t) ==
    /\ Invocable(t)
    /\ \E r \in CurlHealth :
         Advance(t, Begun(t, "start_supabase", SupabaseState,
                          Call("curl health", r.out),
                          IF health_is_200(r.out) THEN "done" ELSE "status",
                          IF health_is_200(r.out) THEN Ok(<<"already_running">>) ELSE NoResult),
                 r, TRUE, FALSE, FALSE)

start_supabase_status(t) ==
    /\ tasks[t].op = "start_supabase"
    /\ tasks[t].pc = "status"
    /\ \E r \in SupabaseStatus :
         Advance(t, Stepped(t, Call("supabase status", r.out),
                            IF status_says_running(r.out) THEN "done" ELSE "start",
                            IF status_says_running(r.out) THEN Ok(<<"already_running">>)
                            ELSE NoResult),
                 r, FALSE, FALSE, FALSE)

start_supabase_start(t) ==
    /\ tasks[t].op = "start_supabase"
    /\ tasks[t].pc = "start"
    /\ \E r \in SupabaseStart :
         Advance(t, Stepped(t, Call("supabase start", r.out), "done",
                            start_supabase_result(r.out)),
                 r, FALSE, FALSE, FALSE)

stop_supabase(t) ==
    /\ Invocable(t)
    /\ \E r \in SupabaseStop :
         LET res == stop_supabase_result(r.out) IN
         Advance(t, Begun(t, "stop_supabase", "none", Call("supabase stop", r.out), "done", res),
                 r, TRUE, res = Ok(<<"stopped">>), FALSE)

\* Variant that restarts the stack to read its configuration.
get_supabase_config_restarts(t) ==
    /\ Invocable(t)
    /\ \E r \in SupabaseStart :
         Advance(t, Begun(t, "get_supabase_config", "none", Call("supabase start", r.out),
                          "done", get_supabase_config_result(r.out)),
                 r, TRUE, FALSE, FALSE)

get_supabase_config(t) ==
    /\ Invocable(t)
    /\ \E r \in SupabaseStatus :
         Advance(t, Begun(t, "get_supabase_config", "none", Call("supabase status", r.out),
                          "done", get_supabase_config_result(r.out)),
                 r, TRUE, FALSE, FALSE)

\* What the backend is, for a probe of the tasks endpoint.
BackendState == IF supa = "up" THEN table ELSE supa

\* Variant that pushes the migrations itself, so the schema is there afterwards.
run_supabase_migrations_pushes(t) ==
    /\ Invocable(t)
    /\ \E r \in CurlTasks :
         /\ docker' = docker
         /\ supa' = supa
         /\ table' = IF supa = "up" THEN "200" ELSE table
         /\ tasks' = [u \in Tasks |->
                        IF u = t
                        THEN Begun(t, "run_supabase_migrations", BackendState,
                                   Call("curl tasks", r.out), "done",
                                   run_supabase_migrations_result(r.out))
                        ELSE [tasks[u] EXCEPT !.peers = @ \ {t}]]
         /\ UNCHANGED <<lastStopClean, dockerSeenRunning, world>>

run_supabase_migrations(t) ==
    /\ Invocable(t)
    /\ \E r \in CurlTasks :
         Advance(t, Begun(t, "run_supabase_migrations", BackendState, Call("curl tasks", r.out),
                          "done", run_supabase_migrations_result(r.out)),
                 r, TRUE, FALSE, FALSE)

check_docker_installed(t) ==
    /\ Invocable(t)
    /\ \E r \in DockerVersion :
         Advance(t, Begun(t, "check_docker_installed", "none", Call("docker --version", r.out),
                          "done", installed_result(r.out)),
                 r, TRUE, FALSE, FALSE)

check_supabase_installed(t) ==
    /\ Invocable(t)
    /\ \E r \in SupabaseVersion :
         Advance(t, Begun(t, "check_supabase_installed", "none",
                          Call("supabase --version", r.out), "done", installed_result(r.out)),
                 r, TRUE, FALSE, FALSE)

cleanup_services_propagates(o) ==
    IF ~o.spawned THEN Err(<<"Failed to stop supabase: ", o.error>>)
    ELSE IF o.success THEN Ok(<<"cleanup_complete">>)
    ELSE Err(<<"Failed to stop Supabase: ">> \o o.stderr)

\* cleanup_services: `let _ =` drops the outcome of the stop
cleanup_services_result(o) == Ok(<<"cleanup_complete">>)

\* cleanup_services(stop_supabase_flag)
cleanup_services(t) ==
    /\ Invocable(t)
    /\ \E flag \in BOOLEAN :
         IF flag
         THEN \E r \in SupabaseStop :
                Advance(t, Begun(t, "cleanup_services", "flag_true",
                                 Call("supabase stop", r.out), "done",
                                 cleanup_services_result(r.out)),
                        r, TRUE, FALSE, FALSE)
         ELSE Advance(t, [Begun(t, "cleanup_services", "flag_false", Call("none", SpawnErr("")),
                                "done", Ok(<<"cleanup_complete">>)) EXCEPT !.cmds = <<>>],
                      Same(SpawnErr("")), TRUE, FALSE, FALSE)

-----------------------------------------------------------------------------
(* The services themselves: a launched daemon becomes ready on its own.    *)

DockerReady ==
    /\ docker = "starting"
    /\ docker' = "up"
    /\ UNCHANGED <<target_os, supa, supabaseCli, curlCli, table, tasks,
                   lastStopClean, dockerSeenRunning>>

SupabaseReady ==
    /\ supa = "starting"
    /\ supa' = "up"
    /\ table' \in HttpCodes
    /\ UNCHANGED <<target_os, docker, supabaseCli, curlCli, tasks,
                   lastStopClean, dockerSeenRunning>>

-----------------------------------------------------------------------------

Init ==
    /\ target_os \in Platforms
    /\ docker \in {"absent", "down", "up"}
    /\ supa \in {"down", "up"}
    /\ supa = "up" => docker = "up"
    /\ supabaseCli \in BOOLEAN
    /\ curlCli \in BOOLEAN
    /\ table \in (IF supa = "up" THEN HttpCodes ELSE {"none"})
    /\ tasks = [t \in Tasks |-> IdleTask]
    /\ lastStopClean = FALSE
    /\ dockerSeenRunning = FALSE

Next ==
    \/ \E t \in Tasks :
         \/ check_docker_status(t)
         \/ start_docker_desktop(t)
         \/ start_docker_desktop_fallback(t)
         \/ check_supabase_status(t)
         \/ check_supabase_status_config(t)
         \/ check_supabase_status_cli(t)
         \/ start_supabase(t)
         \/ start_supabase_status(t)
         \/ start_supabase_start(t)
         \/ stop_supabase(t)
         \/ get_supabase_config(t)
         \/ run_supabase_migrations(t)
         \/ check_docker_installed(t)
         \/ check_supabase_installed(t)
         \/ cleanup_services(t)
    \/ DockerReady
    \/ SupabaseReady

Spec == Init /\ [][Next]_vars

-----------------------------------------------------------------------------
(* Properties *)

Done(t) == tasks[t].pc = "done"

Succeeded(o) == o.spawned /\ o.success

LastCall(t) == tasks[t].cmds[Len(tasks[t].cmds)]

StartOps == {"start_docker_desktop", "start_supabase"}

PrimaryStart(op) ==
    IF op = "start_docker_desktop" THEN "docker desktop start" ELSE "supabase start"

StartCommands ==
    {"docker desktop start", "supabase start"} \cup {FallbackCommand(os) : os \in Platforms}

Issued(t, cmd) == \E i \in 1..Len(tasks[t].cmds) : tasks[t].cmds[i].cmd = cmd

\* The command was issued and its process did run.
Ran(t, cmd) ==
    \E i \in 1..Len(tasks[t].cmds) :
        tasks[t].cmds[i].cmd = cmd /\ tasks[t].cmds[i].out.spawned

\* What a failed invocation leaves as diagnostic: the error of the spawn, or stderr.
Diagnostic(o) == IF o.spawned THEN o.stderr ELSE <<o.error>>

\* C1: a start invoked while its service is running (the status check classifies it
\* as running) returns already_running and issues no start command, primary or
\* fallback; for both services.
C1_StartOnRunningIsNoOp ==
    \A t \in Tasks :
        (Done(t) /\ tasks[t].op \in StartOps /\ tasks[t].pre = "running")
        => /\ tasks[t].res = Ok(<<"already_running">>)
           /\ \A c \in StartCommands : ~Issued(t, c)

\* C2: of two overlapping start invocations for the same service, both begun while
\* the service was stopped, at most one issues the primary start command (counting
\* only the commands whose process did run).
C2_OnePrimaryStart ==
    \A t \in Tasks : \A u \in tasks[t].peers :
        (/\ tasks[t].op \in StartOps
         /\ tasks[u].op = tasks[t].op
         /\ tasks[t].pre = "stopped"
         /\ tasks[u].pre = "stopped")
        => ~(Ran(t, PrimaryStart(tasks[t].op)) /\ Ran(u, PrimaryStart(tasks[t].op)))

\* C3: in check_supabase_status a health probe that reads 200 gives Ok("running:...")
\* whatever the enrichment `supabase status` does; when the enrichment does not
\* succeed the details are the empty object.
C3_Probe200IsRunning ==
    \A t \in Tasks :
        (/\ Done(t)
         /\ tasks[t].op = "check_supabase_status"
         /\ tasks[t].cmds[1].out.spawned
         /\ tasks[t].cmds[1].out.stdout = <<"200">>)
        => /\ tasks[t].res.ok
           /\ StartsWith(tasks[t].res.text, "running:")
           /\ Len(tasks[t].cmds) = 2
           /\ tasks[t].cmds[2].cmd = "supabase status"
           /\ ~Succeeded(tasks[t].cmds[2].out) => tasks[t].res = Ok(<<"running:", "{}">>)

C3_Witness ==
    \E t \in Tasks :
        /\ Done(t)
        /\ tasks[t].op = "check_supabase_status"
        /\ tasks[t].cmds[1].out.stdout = <<"200">>
        /\ ~tasks[t].cmds[2].out.spawned
        /\ tasks[t].res = Ok(<<"running:", "{}">>)

\* C4: with the runtime absent (docker cannot be spawned) check_docker_installed
\* returns Ok("not_installed") and check_docker_status returns Ok("not_running");
\* a runtime that is down or absent is never reported by check_docker_status as an error.
C4_AbsentRuntimeIsNotAnError ==
    \A t \in Tasks :
        /\ (Done(t) /\ tasks[t].op = "check_docker_installed" /\ ~tasks[t].cmds[1].out.spawned)
           => tasks[t].res = Ok(<<"not_installed">>)
        /\ (Done(t) /\ tasks[t].op = "check_docker_status" /\ ~Succeeded(tasks[t].cmds[1].out))
           => tasks[t].res = Ok(<<"not_running">>)

\* C5: a `supabase start` is run only after some check_docker_status has
\* classified the runtime as running.
C5_StartAfterRuntimeSeenRunning ==
    [][\A t \in Tasks :
          (/\ tasks[t].op = "start_supabase"
           /\ tasks[t].pc = "start"
           /\ tasks'[t].pc = "done"
           /\ Ran(t, "supabase start")')
          => dockerSeenRunning]_vars

\* C6: run_supabase_migrations answers Ok("migrations_complete") exactly for the
\* statuses 200, 406 and 401; for every other status it answers an error that
\* contains the manual command.
C6_ReadyExactlyFor200_406_401 ==
    \A t \in Tasks :
        (Done(t) /\ tasks[t].op = "run_supabase_migrations" /\ tasks[t].cmds[1].out.spawned)
        => LET code == tasks[t].cmds[1].out.stdout IN
           /\ (tasks[t].res = Ok(<<"migrations_complete">>))
                <=> (code \in {<<"200">>, <<"406">>, <<"401">>})
           /\ (code \notin {<<"200">>, <<"406">>, <<"401">>})
                => /\ ~tasks[t].res.ok
                   /\ Contains(tasks[t].res.text, "supabase db push --local")

C6_Witness ==
    \E t \in Tasks : \E u \in Tasks :
        /\ Done(t) /\ tasks[t].op = "run_supabase_migrations"
        /\ tasks[t].cmds[1].out.stdout = <<"403">>
        /\ ~tasks[t].res.ok
        /\ Done(u) /\ tasks[u].op = "run_supabase_migrations"
        /\ tasks[u].cmds[1].out.stdout = <<"401">>
        /\ tasks[u].res = Ok(<<"migrations_complete">>)

\* C7: every error of run_supabase_migrations contains the manual command, also
\* when the probe could not be run.
C7_EveryFailureNamesTheCommand ==
    \A t \in Tasks :
        (Done(t) /\ tasks[t].op = "run_supabase_migrations" /\ ~tasks[t].res.ok)
        => Contains(tasks[t].res.text, "supabase db push --local")

\* C8: start_docker_desktop issues `docker desktop start` first, the platform
\* launcher only after that failed (non-zero exit or spawn error), nothing after a
\* success; when the launcher exits 0 the result is Ok("started").
C8_FallbackAfterPrimaryFailure ==
    \A t \in Tasks :
        (tasks[t].op = "start_docker_desktop")
        => LET c == tasks[t].cmds IN
           /\ Len(c) \in {1, 2}
           /\ c[1].cmd = "docker desktop start"
           /\ Len(c) = 2 => (~Succeeded(c[1].out) /\ c[2].cmd = FallbackCommand(target_os))
           /\ Succeeded(c[1].out) => (Len(c) = 1 /\ Done(t))
           /\ (Done(t) /\ ~Succeeded(c[1].out)) => Len(c) = 2
           /\ (Done(t) /\ Succeeded(c[Len(c)].out)) => tasks[t].res = Ok(<<"started">>)
           /\ ~Done(t) => (tasks[t].pc = "fallback" /\ Len(c) = 1)

C8_Witness ==
    \E t \in Tasks :
        /\ Done(t)
        /\ tasks[t].op = "start_docker_desktop"
        /\ Len(tasks[t].cmds) = 2
        /\ ~tasks[t].cmds[1].out.spawned
        /\ Succeeded(tasks[t].cmds[2].out)
        /\ tasks[t].res = Ok(<<"started">>)

\* C9: when every start mechanism of an invocation failed, the result is an error
\* whose text contains the diagnostic (stderr, or the spawn error) of the last one.
C9_StartFailedCarriesLastDiagnostic ==
    \A t \in Tasks :
        (/\ Done(t)
         /\ tasks[t].op \in StartOps
         /\ LastCall(t).cmd \in StartCommands
         /\ ~Succeeded(LastCall(t).out))
        => /\ ~tasks[t].res.ok
           /\ \A i \in 1..Len(Diagnostic(LastCall(t).out)) :
                Contains(tasks[t].res.text, Diagnostic(LastCall(t).out)[i])

\* C10: a check_supabase_status invoked after stop_supabase returned Ok("stopped"),
\* with no launch of the stack in between or during the check, returns
\* Ok("not_running").
C10_CheckAfterStopIsNotRunning ==
    \A t \in Tasks :
        (Done(t) /\ tasks[t].op = "check_supabase_status" /\ tasks[t].pre = "after_stop")
        => tasks[t].res = Ok(<<"not_running">>)

C10_Witness ==
    \E t \in Tasks : \E u \in Tasks :
        /\ Done(u) /\ tasks[u].op = "stop_supabase" /\ tasks[u].res = Ok(<<"stopped">>)
        /\ Done(t) /\ tasks[t].op = "check_supabase_status" /\ tasks[t].pre = "after_stop"
        /\ Len(tasks[t].cmds) = 2
        /\ tasks[t].res = Ok(<<"not_running">>)

\* C11: cleanup_services returns Ok("cleanup_complete") for every flag and every
\* outcome of the stop; it issues exactly one `supabase stop` when the flag is
\* true and no command when it is false.
C11_CleanupNeverFails ==
    \A t \in Tasks :
        (Done(t) /\ tasks[t].op = "cleanup_services")
        => /\ tasks[t].res = Ok(<<"cleanup_complete">>)
           /\ tasks[t].pre \in {"flag_true", "flag_false"}
           /\ tasks[t].pre = "flag_true"
                => (Len(tasks[t].cmds) = 1 /\ tasks[t].cmds[1].cmd = "supabase stop")
           /\ tasks[t].pre = "flag_false" => tasks[t].cmds = <<>>

C11_Witness ==
    \E t \in Tasks : \E u \in Tasks :
        /\ Done(t) /\ tasks[t].op = "cleanup_services" /\ tasks[t].pre = "flag_true"
        /\ tasks[t].cmds[1].out.spawned /\ ~tasks[t].cmds[1].out.success
        /\ tasks[t].res = Ok(<<"cleanup_complete">>)
        /\ Done(u) /\ tasks[u].op = "cleanup_services" /\ tasks[u].pre = "flag_false"

\* A probe that read 200, or a CLI status query that exited 0, in this invocation.
PositiveCheck(c) ==
    \/ c.cmd = "curl health" /\ c.out.spawned /\ c.out.stdout = <<"200">>
    \/ c.cmd \in {"docker info", "supabase status"} /\ Succeeded(c.out)

ReportsRunning(t) ==
    \/ /\ tasks[t].op \in {"check_docker_status", "check_supabase_status"}
       /\ tasks[t].res.ok
       /\ StartsWith(tasks[t].res.text, "running:")
    \/ /\ tasks[t].op = "start_supabase"
       /\ tasks[t].res = Ok(<<"already_running">>)

\* C12: an invocation reports running (running:... of the two status checks,
\* already_running of start_supabase) only if one of its own commands was a health
\* probe reading 200 or a CLI status query that exited 0.
C12_RunningNeedsPositiveCheck ==
    \A t \in Tasks :
        (Done(t) /\ ReportsRunning(t))
        => \E i \in 1..Len(tasks[t].cmds) : PositiveCheck(tasks[t].cmds[i])

C12_Witness ==
    \E t \in Tasks :
        /\ Done(t) /\ tasks[t].op = "start_supabase"
        /\ tasks[t].res = Ok(<<"already_running">>)
        /\ Len(tasks[t].cmds) = 2
        /\ Succeeded(tasks[t].cmds[2].out)

\* C14: stop_supabase issues exactly one command, `supabase stop`, whatever the
\* state of the stack; Ok("stopped") exactly when it exited 0, and an error with
\* its stderr when it exited non-zero.
C14_StopIsDirect ==
    \A t \in Tasks :
        (Done(t) /\ tasks[t].op = "stop_supabase")
        => LET o == tasks[t].cmds[1].out IN
           /\ Len(tasks[t].cmds) = 1
           /\ tasks[t].cmds[1].cmd = "supabase stop"
           /\ (tasks[t].res = Ok(<<"stopped">>)) <=> Succeeded(o)
           /\ (o.spawned /\ ~o.success)
                => /\ ~tasks[t].res.ok
                   /\ \A i \in 1..Len(o.stderr) : Contains(tasks[t].res.text, o.stderr[i])

C14_Witness ==
    \E t \in Tasks : \E u \in Tasks :
        /\ Done(t) /\ tasks[t].op = "stop_supabase"
        /\ tasks[t].cmds[1].out.spawned /\ ~tasks[t].cmds[1].out.success
        /\ ~tasks[t].res.ok
        /\ Done(u) /\ tasks[u].op = "stop_supabase" /\ tasks[u].res = Ok(<<"stopped">>)

\* C15: check_docker_installed and check_supabase_installed never return an error:
\* a --version that exited 0 gives installed:<version>, every other outcome
\* (non-zero exit, spawn failure) gives not_installed.
C15_InstalledNeverErrs ==
    \A t \in Tasks :
        (Done(t) /\ tasks[t].op \in {"check_docker_installed", "check_supabase_installed"})
        => LET o == tasks[t].cmds[1].out IN
           /\ tasks[t].res.ok
           /\ Len(tasks[t].cmds) = 1
           /\ tasks[t].cmds[1].cmd \in {"docker --version", "supabase --version"}
           /\ Succeeded(o)
                => (/\ StartsWith(tasks[t].res.text, "installed:")
                    /\ Len(tasks[t].res.text) = 2
                    /\ Contains(o.stdout, tasks[t].res.text[2]))
           /\ ~Succeeded(o) => tasks[t].res = Ok(<<"not_installed">>)

C15_Witness ==
    \E t \in Tasks : \E u \in Tasks :
        /\ Done(t) /\ tasks[t].op = "check_supabase_installed"
        /\ ~tasks[t].cmds[1].out.spawned
        /\ tasks[t].res = Ok(<<"not_installed">>)
        /\ Done(u) /\ tasks[u].op = "check_docker_installed"
        /\ tasks[u].cmds[1].out.spawned /\ ~tasks[u].cmds[1].out.success
        /\ tasks[u].res = Ok(<<"not_installed">>)

\* C16: in check_supabase_status the CLI query is the fallback only when the probe
\* did not read 200; there a query that exited 0 gives running:<stdout>, and every
\* failure of it (non-zero exit, spawn failure) gives Ok("not_running"), not an error.
C16_CliFallbackNeverErrs ==
    \A t \in Tasks :
        (Done(t) /\ tasks[t].op = "check_supabase_status")
        => LET h == tasks[t].cmds[1].out
               c == tasks[t].cmds[2].out
               probe200 == h.spawned /\ h.stdout = <<"200">>
           IN
           /\ Len(tasks[t].cmds) = 2
           /\ tasks[t].cmds[2].cmd = "supabase status"
           /\ (~probe200 /\ Succeeded(c)) => tasks[t].res = Ok(<<"running:">> \o c.stdout)
           /\ (~probe200 /\ ~Succeeded(c)) => tasks[t].res = Ok(<<"not_running">>)

\* The health probe ran and printed 200.
Probe200(o) == o.spawned /\ o.stdout = <<"200">>

\* C18: start_supabase issues `supabase start` at most once, as its third and last
\* command, after a probe that did not read 200 and a CLI status query that did
\* not exit 0; it returns Ok("started") exactly when the launch exited 0, with no
\* status check after it.
C18_LaunchOnceAfterNegativeChecks ==
    \A t \in Tasks :
        (tasks[t].op = "start_supabase")
        => LET c == tasks[t].cmds IN
           /\ Len(c) \in 1..3
           /\ c[1].cmd = "curl health"
           /\ \A i \in 1..Len(c) : c[i].cmd = "supabase start" => i = 3
           /\ Len(c) >= 2 => (c[2].cmd = "supabase status" /\ ~Probe200(c[1].out))
           /\ Len(c) = 3
                => /\ c[3].cmd = "supabase start"
                   /\ ~Succeeded(c[2].out)
                   /\ Done(t)
                   /\ (tasks[t].res = Ok(<<"started">>)) <=> Succeeded(c[3].out)
           /\ (Done(t) /\ tasks[t].res = Ok(<<"started">>)) => Len(c) = 3

\* started, and a status check that ran while the stack was still coming up
\* reports not_running.
C18_Witness ==
    \E t \in Tasks : \E u \in Tasks :
        /\ Done(t) /\ tasks[t].op = "start_supabase" /\ tasks[t].res = Ok(<<"started">>)
        /\ supa = "starting"
        /\ Done(u) /\ tasks[u].op = "check_supabase_status"
        /\ tasks[u].cmds[1].out.stdout = <<"503">>
        /\ tasks[u].res = Ok(<<"not_running">>)

\* The invocation of start_supabase has finished its checks.
StartDecided(t) == tasks[t].op = "start_supabase" /\ tasks[t].pc \in {"start", "done"}

StartSaysRunning(t) ==
    Done(t) /\ tasks[t].res = Ok(<<"already_running">>) /\ ~Issued(t, "supabase start")

\* C19: a start_supabase and a check_supabase_status that saw the same outcome of
\* the health probe, and the same outcome of `supabase status` when the probe did
\* not read 200, agree: already_running exactly when running:..., so a launch goes
\* with a check that does not report running.
C19_StartAgreesWithCheck ==
    \A t \in Tasks : \A u \in Tasks :
        (/\ StartDecided(t)
         /\ Done(u) /\ tasks[u].op = "check_supabase_status"
         /\ tasks[t].cmds[1].out = tasks[u].cmds[1].out
         /\ ~Probe200(tasks[t].cmds[1].out) => tasks[t].cmds[2].out = tasks[u].cmds[2].out)
        => /\ StartSaysRunning(t)
                <=> (tasks[u].res.ok /\ StartsWith(tasks[u].res.text, "running:"))
           /\ Issued(t, "supabase start") => ~StartsWith(tasks[u].res.text, "running:")

C19_Witness ==
    \E t \in Tasks : \E u \in Tasks :
        /\ StartDecided(t) /\ StartSaysRunning(t)
        /\ Len(tasks[t].cmds) = 2
        /\ Done(u) /\ tasks[u].op = "check_supabase_status"
        /\ tasks[t].cmds[1].out = tasks[u].cmds[1].out
        /\ tasks[t].cmds[2].out = tasks[u].cmds[2].out
        /\ StartsWith(tasks[u].res.text, "running:")

\* C17: run_supabase_migrations changes nothing of the services, and a call
\* answers what an earlier call answered for the same state of the backend.
C17_VerifyIsIdempotent ==
    [][\A t \in Tasks :
          (tasks'[t] # tasks[t] /\ tasks'[t].op = "run_supabase_migrations")
          => /\ docker' = docker
             /\ supa' = supa
             /\ table' = table
             /\ \A u \in Tasks :
                  (/\ Done(u)
                   /\ tasks[u].op = "run_supabase_migrations"
                   /\ tasks[u].pre = tasks'[t].pre)
                  => tasks'[t].res = tasks[u].res]_vars

C17_Witness ==
    \E t \in Tasks : \E u \in Tasks :
        /\ t # u
        /\ Done(t) /\ tasks[t].op = "run_supabase_migrations"
        /\ Done(u) /\ tasks[u].op = "run_supabase_migrations"
        /\ tasks[t].pre = "404" /\ tasks[u].pre = "404"
        /\ tasks[t].res = tasks[u].res
        /\ ~tasks[t].res.ok

QueryOps ==
    {"check_docker_status", "check_docker_installed", "check_supabase_status",
     "check_supabase_installed", "get_supabase_config", "run_supabase_migrations"}

ControlCommands == StartCommands \cup {"supabase stop"}

\* The invocation in slot t is one that may start or stop a service.
ControlOp(task) ==
    \/ task.op \in StartOps \cup {"stop_supabase"}
    \/ task.op = "cleanup_services" /\ task.pre = "flag_true"

\* A launched daemon finished coming up.
BecameReady ==
    \/ docker = "starting" /\ docker' = "up" /\ supa' = supa
    \/ supa = "starting" /\ supa' = "up" /\ docker' = docker

\* C20: the query commands never issue a start or stop command, and a step in
\* which a service changes is the step of a start, stop or cleanup(flag) command
\* that exited 0 (or a launched daemon becoming ready), never the step of a query.
C20_QueriesLeaveServicesAlone ==
    [][/\ \A t \in Tasks :
            tasks'[t].op \in QueryOps
            => \A i \in 1..Len(tasks'[t].cmds) : tasks'[t].cmds[i].cmd \notin ControlCommands
       /\ (docker' # docker \/ supa' # supa)
            => \/ BecameReady
               \/ /\ \E t \in Tasks :
                       /\ ControlOp(tasks'[t])
                       /\ tasks'[t].cmds # <<>>
                       /\ tasks'[t].cmds[Len(tasks'[t].cmds)].cmd \in ControlCommands
                       /\ Succeeded(tasks'[t].cmds[Len(tasks'[t].cmds)].out)
                  /\ \A u \in Tasks :
                       tasks'[u].cmds # tasks[u].cmds => tasks'[u].op \notin QueryOps]_vars

C20_Witness ==
    \E t \in Tasks : \E u \in Tasks :
        /\ Done(t) /\ tasks[t].op = "get_supabase_config" /\ tasks[t].res.ok
        /\ Done(u) /\ tasks[u].op = "check_supabase_status"
        /\ StartsWith(tasks[u].res.text, "running:")
        /\ supa = "up"

-----------------------------------------------------------------------------
(* External commands that never exit.  `.output().await` has no timeout;   *)
(* only the curl probes carry one (--max-time), so curl itself exits.      *)

\* A process that was spawned and has not exited.
NeverExits == Exit(FALSE, <<>>, <<>>)

DockerCommands == {"docker info", "docker desktop start", "docker --version"}

SupabaseCommands == {"supabase status", "supabase start", "supabase stop", "supabase --version"}

\* The executable of the command can be spawned.
Spawnable(cmd) ==
    IF cmd \in DockerCommands THEN docker # "absent"
    ELSE IF cmd \in SupabaseCommands THEN supabaseCli
    ELSE TRUE

\* The operations whose first await is a CLI command.
FirstAwait ==
    {[op |-> "check_docker_status", pre |-> "none", cmd |-> "docker info"],
     [op |-> "start_docker_desktop", pre |-> DockerState, cmd |-> "docker desktop start"],
     [op |-> "stop_supabase", pre |-> "none", cmd |-> "supabase stop"],
     [op |-> "get_supabase_config", pre |-> "none", cmd |-> "supabase status"],
     [op |-> "check_docker_installed", pre |-> "none", cmd |-> "docker --version"],
     [op |-> "check_supabase_installed", pre |-> "none", cmd |-> "supabase --version"],
     [op |-> "cleanup_services", pre |-> "flag_true", cmd |-> "supabase stop"]}

\* The CLI command an invocation that is between two awaits issues next.
NextAwait(task) ==
    IF task.pc = "fallback" THEN FallbackCommand(target_os)
    ELSE IF task.pc = "start" THEN "supabase start"
    ELSE "supabase status"

\* Slot t awaits the output of a CLI command that never exits.
Hang(t) ==
    \/ /\ Invocable(t)
       /\ \E a \in FirstAwait :
            /\ Spawnable(a.cmd)
            /\ Advance(t, Begun(t, a.op, a.pre, Call(a.cmd, NeverExits), "awaiting", NoResult),
                       Same(NeverExits), TRUE, FALSE, FALSE)
    \/ /\ tasks[t].pc \in {"fallback", "config", "cli", "status", "start"}
       /\ Spawnable(NextAwait(tasks[t]))
       /\ Advance(t, Stepped(t, Call(NextAwait(tasks[t]), NeverExits), "awaiting", NoResult),
                  Same(NeverExits), FALSE, FALSE, FALSE)

NextHang == Next \/ \E t \in Tasks : Hang(t)

SpecHang == Init /\ [][NextHang]_vars

\* The steps by which an invocation in flight goes on: the exit of the command
\* it awaits, followed by the handler's code.
Continue(t) ==
    \/ start_docker_desktop_fallback(t)
    \/ check_supabase_status_config(t)
    \/ check_supabase_status_cli(t)
    \/ start_supabase_status(t)
    \/ start_supabase_start(t)

\* C13: every invocation in flight has a step that takes it on towards its
\* return, also when the command it awaits never exits (a timeout would be such a
\* step).
C13_EveryAwaitIsBounded ==
    \A t \in Tasks : InFlight(t) => ENABLED Continue(t)

====
